---- MODULE Spec2Model ----
(***************************************************************************)
(* A model of the health tracker backend: the user service (signup and     *)
(* login over the User collection), the workout and meal record access     *)
(* layer, and the statistics computation with its AI enrichment call.      *)
(*                                                                         *)
(* JavaScript values are modelled as follows.  A request field is an       *)
(* option: Absent (the property is undefined) or Some(s) for a string s.   *)
(* An error message is the tuple of its parts, so that String.includes is  *)
(* membership of a part.  A bcrypt hash string is the tuple of the parts   *)
(* of its modular crypt format, a plaintext is the one-part tuple.         *)
(***************************************************************************)
EXTENDS Integers, Sequences, FiniteSets, TLC

VARIABLES
    users,      \* the User collection: a set of user documents
    nextId,     \* the next ObjectId the store assigns
    signup,     \* the signup requests in flight: task -> its position and data
    lastLogin,  \* the last login request served: its path and its response
    workouts,   \* the Workout collection: a set of workout documents
    meals,      \* the Meal collection: a set of meal documents
    crud,       \* the last create or delete call served, and the one before it
    stats       \* the statistics calls in flight: task -> its position and data

userVars == <<users, signup, lastLogin>>

recordVars == <<workouts, meals, crud, stats>>

vars == <<users, nextId, signup, lastLogin, workouts, meals, crud, stats>>

(***************************************************************************)
(* Bounds and input sets                                                   *)
(***************************************************************************)
MaxSignups == 2

SignupTasks == 1..MaxSignups

Absent == <<>>

Some(s) == <<s>>

Usernames == {Some(""), Some("john")}

Emails == {Absent, Some("a@x.com"), Some("b@x.com")}

Passwords == {Absent, Some("secret1"), Some("secret2")}

Salts == {"saltA", "saltB"}

SignupBodies == [username : Usernames, email : Emails, password : Passwords]

LoginBodies == [email : Emails, password : Passwords]

(***************************************************************************)
(* bcrypt and jsonwebtoken, as the services use them                       *)
(***************************************************************************)
SaltRounds == 10

\* bcrypt.genSalt(10) then bcrypt.hash(password, salt): "$2b$10$" salt digest
BcryptHash(password, salt) == <<"$2b$", SaltRounds, salt, <<salt, password>>>>

\* a slip: the data is hashed under a salt of its own, not the salt of hash
BcryptCompareOwnSalt(data, hash) ==
    /\ Len(hash) = 4
    /\ BcryptHash(data, "saltA") = hash

\* bcrypt.compare(data, hash): hash data under the salt of hash, compare
BcryptCompare(data, hash) ==
    /\ Len(hash) = 4
    /\ BcryptHash(data, hash[3]) = hash

\* jwt.sign({ userId, email }, secret, { expiresIn: "24h" })
JwtSign(userId, email) == [userId |-> userId, email |-> email, expiresIn |-> "24h"]

(***************************************************************************)
(* The User collection (models/schema/user.ts)                             *)
(***************************************************************************)
\* JavaScript truthiness of a request field: undefined and "" are falsy
Falsy(field) == field = Absent \/ field = Some("")

\* a slip: the lookup made on the username field
FindUserByUsername(coll, email) == {u \in coll : Some(u.username) = email}

\* User.findUserByEmail: findOne({ email }); the set of matches (at most one)
FindUserByEmail(coll, email) == {u \in coll : Some(u.email) = email}

\* a slip: the schema without unique: true on email
NoUniqueIndex(coll, email) == FALSE

\* the unique index on email: does inserting this email violate it
UniqueViolation(coll, email) == \E u \in coll : u.email = email

\* the document User.create stores
NewUserDoc(id, username, email, hashed) ==
    [_id |-> id, username |-> username, email |-> email, password |-> hashed, __v |-> 0]

\* the toJSON transform of the schema: _id as string, __v and password deleted
UserToJSON(u) == [_id |-> u._id, username |-> u.username, email |-> u.email]

(***************************************************************************)
(* Errors: the message as the tuple of its parts, and the enumerable own   *)
(* properties, which are what JSON.stringify(err) shows                    *)
(***************************************************************************)
NoProps == <<>>

ErrAllFields ==
    [message |-> <<"validation", " failed: ", "All fields are required">>,
     props |-> NoProps]

ErrUserExists ==
    [message |-> <<"validation", " failed: ", "User with this email already exists">>,
     props |-> NoProps]

ErrInvalidCredentials == [message |-> <<"Invalid credentials">>, props |-> NoProps]

\* bcrypt.compare(undefined, hash) rejects
ErrBcryptArgs == [message |-> <<"data and hash arguments required">>, props |-> NoProps]

\* the store's answer to an insert that violates the unique index on email
ErrDuplicateKey(email) ==
    [message |-> <<"E11000 duplicate key error collection: ", "User", " index: email_1">>,
     props |-> [code |-> 11000, keyValue |-> [email |-> email]]]

\* String.prototype.includes on an error message
Includes(message, part) == \E i \in 1..Len(message) : message[i] = part

Threw(err) == [ok |-> FALSE, error |-> err]

Returned(value) == [ok |-> TRUE, value |-> value]

(***************************************************************************)
(* services/userService.ts                                                 *)
(***************************************************************************)
\* a slip: the stored document returned as the view
UserViewWhole(user) == user

\* the redacted view both services return beside the token
UserView(user) == [_id |-> user._id, username |-> user.username, email |-> user.email]

AuthResult(user) ==
    Returned([user |-> UserView(user), token |-> JwtSign(user._id, user.email)])

\* bcrypt.compare on the request's password field
PasswordValid(password, hash) == BcryptCompare(password[1], hash)

\* a slip: an unknown email reported with an error of its own
AuthenticateUserLeaky(coll, credentials) ==
    LET found == FindUserByEmail(coll, credentials.email) IN
    IF found = {} THEN Threw([message |-> <<"User not found">>, props |-> NoProps])
    ELSE LET user == CHOOSE u \in found : TRUE IN
         IF credentials.password = Absent THEN Threw(ErrBcryptArgs)
         ELSE IF ~PasswordValid(credentials.password, user.password)
              THEN Threw(ErrInvalidCredentials)
              ELSE AuthResult(user)

\* authenticateUser on the collection as the lookup finds it
AuthenticateUser(coll, credentials) ==
    LET found == FindUserByEmail(coll, credentials.email) IN
    IF found = {} THEN Threw(ErrInvalidCredentials)
    ELSE LET user == CHOOSE u \in found : TRUE IN
         IF credentials.password = Absent THEN Threw(ErrBcryptArgs)
         ELSE IF ~PasswordValid(credentials.password, user.password)
              THEN Threw(ErrInvalidCredentials)
              ELSE AuthResult(user)

\* a slip: the password left out of the check of the fields
FieldsMissingButPassword(userData) == Falsy(userData.username) \/ Falsy(userData.email)

\* registerUser, line 76: the check of the three fields
FieldsMissing(userData) ==
    Falsy(userData.username) \/ Falsy(userData.email) \/ Falsy(userData.password)

\* a slip: the supplied password handed to User.createUser unhashed
RegisterDocPlain(id, userData, salt) ==
    NewUserDoc(id, userData.username[1], userData.email[1], userData.password)

\* registerUser, lines 88-96: the document handed to User.createUser
RegisterDoc(id, userData, salt) ==
    NewUserDoc(id, userData.username[1], userData.email[1],
               BcryptHash(userData.password[1], salt))

(***************************************************************************)
(* controllers/userController.ts                                           *)
(***************************************************************************)
Response(status, body) == [status |-> status, body |-> body]

LoginResponse(outcome) ==
    IF outcome.ok THEN Response(200, outcome.value)
    ELSE IF outcome.error.message = <<"Invalid credentials">>
         THEN Response(401, [message |-> "Invalid credentials"])
         ELSE Response(500, [message |-> "Internal Server Error",
                             error |-> outcome.error.props])

\* a slip: every validation error answered 400, the 409 branch missing
SignupResponseNo409(outcome) ==
    IF outcome.ok THEN Response(200, outcome.value)
    ELSE IF Includes(outcome.error.message, "validation")
         THEN Response(400, [message |-> "Invalid registration data",
                             error |-> outcome.error.message])
         ELSE Response(500, [message |-> "Internal Server Error",
                             error |-> outcome.error.props])

SignupResponse(outcome) ==
    IF outcome.ok THEN Response(200, outcome.value)
    ELSE IF Includes(outcome.error.message, "validation")
         THEN IF Includes(outcome.error.message, "User with this email already exists")
              THEN Response(409, [message |-> "User with this email already exists"])
              ELSE Response(400, [message |-> "Invalid registration data",
                                  error |-> outcome.error.message])
         ELSE Response(500, [message |-> "Internal Server Error",
                             error |-> outcome.error.props])

(***************************************************************************)
(* The user requests.  A signup request suspends at its two store calls    *)
(* (the lookup and the insert), so other requests run in between; a login  *)
(* reads the collection once, and users are never changed, so it is one    *)
(* step.                                                                   *)
(***************************************************************************)
NoOutcome == Threw([message |-> <<>>, props |-> NoProps])

NoResponse == Response(0, <<>>)

IdleSignup ==
    [pc |-> "idle",
     body |-> [username |-> Absent, email |-> Absent, password |-> Absent],
     held |-> FALSE, free |-> FALSE, outcome |-> NoOutcome, resp |-> NoResponse]

NoLogin ==
    [served |-> FALSE, credentials |-> [email |-> Absent, password |-> Absent],
     found |-> FALSE, outcome |-> NoOutcome, resp |-> NoResponse]

\* history only: is the email held by a stored user right now
EmailHeld(email) == \E u \in users : Some(u.email) = email

InitUsers ==
    /\ users = {}
    /\ signup = [t \in SignupTasks |-> IdleSignup]
    /\ lastLogin = NoLogin

\* the handler's answer to a finished registerUser call
SignupDone(t, outcome) ==
    signup' = [signup EXCEPT ![t].pc = "done", ![t].outcome = outcome,
                             ![t].resp = SignupResponse(outcome)]

\* POST /user/signup arrives: registerUser checks the fields, then awaits the lookup
SignupRequest(t, body) ==
    /\ signup[t].pc = "idle"
    /\ LET started == [signup EXCEPT ![t].body = body, ![t].held = EmailHeld(body.email)] IN
       IF FieldsMissing(body)
       THEN signup' = [started EXCEPT ![t].pc = "done", ![t].outcome = Threw(ErrAllFields),
                                     ![t].resp = SignupResponse(Threw(ErrAllFields))]
       ELSE signup' = [started EXCEPT ![t].pc = "finding"]
    /\ UNCHANGED <<users, nextId, lastLogin, recordVars>>

\* the store answers User.findUserByEmail
SignupFind(t) ==
    /\ signup[t].pc = "finding"
    /\ IF FindUserByEmail(users, signup[t].body.email) # {}
       THEN SignupDone(t, Threw(ErrUserExists))
       ELSE signup' = [signup EXCEPT ![t].pc = "creating", ![t].free = TRUE]
    /\ UNCHANGED <<users, nextId, lastLogin, recordVars>>

\* the password is hashed under a fresh salt and the store answers User.createUser
SignupCreate(t) ==
    /\ signup[t].pc = "creating"
    /\ \E salt \in Salts :
         LET body == signup[t].body
             doc == RegisterDoc(nextId, body, salt) IN
         IF UniqueViolation(users, doc.email)
         THEN /\ signup' = [signup EXCEPT
                      ![t].pc = "done", ![t].free = ~EmailHeld(body.email),
                      ![t].outcome = Threw(ErrDuplicateKey(doc.email)),
                      ![t].resp = SignupResponse(Threw(ErrDuplicateKey(doc.email)))]
              /\ UNCHANGED <<users, nextId>>
         ELSE /\ users' = users \cup {doc}
              /\ nextId' = nextId + 1
              /\ signup' = [signup EXCEPT
                      ![t].pc = "done", ![t].free = ~EmailHeld(body.email),
                      ![t].outcome = AuthResult(doc),
                      ![t].resp = SignupResponse(AuthResult(doc))]
    /\ UNCHANGED <<lastLogin, recordVars>>

\* a slip: the user saved again on a successful login
LoginSavesUser(credentials) ==
    /\ LET outcome == AuthenticateUser(users, credentials) IN
       /\ lastLogin' = [served |-> TRUE, credentials |-> credentials,
                        found |-> EmailHeld(credentials.email), outcome |-> outcome,
                        resp |-> LoginResponse(outcome)]
       /\ users' = {IF outcome.ok /\ Some(u.email) = credentials.email
                    THEN [u EXCEPT !.__v = u.__v + 1] ELSE u : u \in users}
    /\ UNCHANGED <<nextId, signup, recordVars>>

\* POST /user/login
Login(credentials) ==
    /\ LET outcome == AuthenticateUser(users, credentials) IN
       lastLogin' = [served |-> TRUE, credentials |-> credentials,
                     found |-> EmailHeld(credentials.email), outcome |-> outcome, resp |-> LoginResponse(outcome)]
    /\ UNCHANGED <<users, nextId, signup, recordVars>>

NextUser ==
    \/ \E t \in SignupTasks, body \in SignupBodies : SignupRequest(t, body)
    \/ \E t \in SignupTasks : SignupFind(t)
    \/ \E t \in SignupTasks : SignupCreate(t)
    \/ \E credentials \in LoginBodies : Login(credentials)

(***************************************************************************)
(* Workouts and meals: input sets                                          *)
(***************************************************************************)
MaxRecords == 2

MaxStats == 1

StatsTasks == 1..MaxStats

\* the ids a request may name: every id the store can have assigned, and one more
RecordIds == 1..(MaxRecords + 1)

UserIds == {"u1", "u2"}

Exercise(name, sets, reps, weight) ==
    [exercise |-> name, sets |-> sets, reps |-> reps, weight |-> weight]

ExerciseLists ==
    {<<>>,
     <<Exercise("squat", 3, 10, Some(100)), Exercise("press", 2, 8, Some(50))>>,
     <<Exercise("plank", 3, 1, Absent)>>}

Food(name, quantity, calories) ==
    [food |-> name, quantity |-> quantity, calories |-> calories]

FoodLists ==
    {<<>>,
     <<Food("rice", 1, Some(200))>>,
     <<Food("rice", 1, Some(200)), Food("egg", 2, Some(150)), Food("tea", 1, Absent)>>}

WorkoutBodies ==
    [userId : UserIds, name : {"Leg Day"}, date : {"2024-01-01"},
     exercises : ExerciseLists]

MealBodies ==
    [userId : UserIds, name : {"Lunch"}, date : {"2024-01-01"}, foods : FoodLists]

(***************************************************************************)
(* The record access layer (models/schema/workouts.ts, models/schema/meals)*)
(***************************************************************************)
\* Model.create: the stored document
NewWorkoutDoc(id, data) ==
    [_id |-> id, userId |-> data.userId, name |-> data.name, date |-> data.date,
     exercises |-> data.exercises, __v |-> 0]

NewMealDoc(id, data) ==
    [_id |-> id, userId |-> data.userId, name |-> data.name, date |-> data.date,
     foods |-> data.foods, __v |-> 0]

\* the toJSON transform of both schemas: _id as string, __v deleted
RecordToJSON(doc) == [f \in DOMAIN doc \ {"__v"} |-> doc[f]]

\* null: what findById, findByIdAndUpdate and the statistics services return
\* for an id with no record
Null == [null |-> TRUE]

\* Model.findById: the set of matches (at most one)
FindById(coll, id) == {d \in coll : d._id = id}

\* the data of an update: each field of the record present or not
PartialWorkouts ==
    [name : {Absent, Some("Push Day")},
     exercises : {Absent, Some(<<Exercise("plank", 3, 1, Absent)>>)}]

PartialMeals ==
    [name : {Absent, Some("Dinner")},
     foods : {Absent, Some(<<Food("rice", 1, Some(200))>>)}]

\* the data of two updates that meet on one record: two names to tell them apart
RaceWorkouts ==
    [name : {Some("Push Day"), Some("Pull Day")}, exercises : {Absent}]
        \cup [name : {Absent}, exercises : {Some(<<Exercise("plank", 3, 1, Absent)>>)}]

RaceMeals ==
    [name : {Some("Dinner"), Some("Supper")}, foods : {Absent}]
        \cup [name : {Absent}, foods : {Some(<<Food("rice", 1, Some(200))>>)}]

NoPartial == [name |-> Absent]

\* a slip: optimistic concurrency, an update of a document updated before is dropped
ApplyUpdateVersioned(doc, data) ==
    IF doc.__v # 0 THEN doc
    ELSE [f \in DOMAIN doc |->
             IF f = "__v" THEN 1
             ELSE IF f \in DOMAIN data
             THEN IF data[f] = Absent THEN doc[f] ELSE data[f][1]
             ELSE doc[f]]

\* a slip: the document replaced by the data, fields not in the data reset
ApplyUpdateReplace(doc, data) ==
    [f \in DOMAIN doc |->
        IF f \in DOMAIN data
        THEN IF data[f] = Absent THEN (IF f = "exercises" \/ f = "foods" THEN <<>> ELSE "")
             ELSE data[f][1]
        ELSE doc[f]]

\* findByIdAndUpdate(id, data): the fields of data are $set on the document
ApplyUpdate(doc, data) ==
    [f \in DOMAIN doc |->
        IF f \in DOMAIN data
        THEN IF data[f] = Absent THEN doc[f] ELSE data[f][1]
        ELSE doc[f]]

\* a slip: { upsert: true }, an update of an id with no document inserts one
UpdatedCollUpsert(coll, id, data) ==
    IF \E d \in coll : d._id = id
    THEN {IF d._id = id THEN ApplyUpdate(d, data) ELSE d : d \in coll}
    ELSE coll \cup {[_id |-> id, userId |-> "", name |-> "", date |-> "", __v |-> 0]}

\* findByIdAndUpdate: the collection afterwards; no upsert
UpdatedColl(coll, id, data) ==
    {IF d._id = id THEN ApplyUpdate(d, data) ELSE d : d \in coll}

\* Workout.updateWorkout: { new: true } returns the document as updated, or null
UpdateWorkoutResult(coll, id, data) ==
    IF FindById(coll, id) = {} THEN Null
    ELSE ApplyUpdate(CHOOSE d \in FindById(coll, id) : TRUE, data)

\* Meal.updateMeal
UpdateMealResult(coll, id, data) ==
    IF FindById(coll, id) = {} THEN Null
    ELSE ApplyUpdate(CHOOSE d \in FindById(coll, id) : TRUE, data)

\* mealController.updateMeal
UpdateMealResponse(result) ==
    IF result = Null THEN Response(404, [message |-> "Meal not found"])
    ELSE Response(200, RecordToJSON(result))

\* findByIdAndDelete: the collection afterwards
WithoutId(coll, id) == {d \in coll : d._id # id}

\* a slip: the result of the delete tells nothing of the removal
DeleteWorkoutAlwaysTrue(coll, id) == TRUE

\* Workout.deleteWorkout: result !== null, result the document removed
DeleteWorkoutResult(coll, id) == FindById(coll, id) # {}

\* Meal.deleteMeal: !!result
DeleteMealResult(coll, id) == FindById(coll, id) # {}

\* mealController.deleteMeal
DeleteMealResponse(result) ==
    IF ~result THEN Response(404, [message |-> "Meal not found"])
    ELSE Response(200, [message |-> "Meal deleted successfully"])

\* createWorkout / createMeal of the controllers: res.status(201).json(result)
CreatedResponse(doc) == Response(201, RecordToJSON(doc))

(***************************************************************************)
(* The AI completion call and the extraction of its estimate.  A response  *)
(* text is the tuple of its characters.                                    *)
(***************************************************************************)
Digits == {"0", "1", "2", "3", "4", "5", "6", "7", "8", "9"}

DigitValue(c) ==
    CASE c = "0" -> 0 [] c = "1" -> 1 [] c = "2" -> 2 [] c = "3" -> 3 [] c = "4" -> 4
      [] c = "5" -> 5 [] c = "6" -> 6 [] c = "7" -> 7 [] c = "8" -> 8 [] c = "9" -> 9

\* text.match(/\d+/): the leftmost longest run of digits, <<>> when there is none
RECURSIVE DigitRun(_)
DigitRun(text) ==
    IF text = <<>> \/ Head(text) \notin Digits THEN <<>>
    ELSE <<Head(text)>> \o DigitRun(Tail(text))

\* a slip: the pattern /\d/ for /\d+/, which matches the first digit alone
RECURSIVE MatchDigitsOne(_)
MatchDigitsOne(text) ==
    IF text = <<>> THEN <<>>
    ELSE IF Head(text) \in Digits THEN <<Head(text)>>
    ELSE MatchDigitsOne(Tail(text))

RECURSIVE MatchDigits(_)
MatchDigits(text) ==
    IF text = <<>> THEN <<>>
    ELSE IF Head(text) \in Digits THEN DigitRun(text)
    ELSE MatchDigits(Tail(text))

\* parseInt on a run of digits
RECURSIVE ParseInt(_)
ParseInt(digits) ==
    IF digits = <<>> THEN 0
    ELSE 10 * ParseInt(SubSeq(digits, 1, Len(digits) - 1)) + DigitValue(digits[Len(digits)])

\* parseInt(aiResponse?.match(/\d+/)?.[0] || '0'), content null or a text
ExtractCalories(content) ==
    IF content = Absent THEN 0
    ELSE IF MatchDigits(content[1]) = <<>> THEN 0
    ELSE ParseInt(MatchDigits(content[1]))

AiThrows == [kind |-> "throws", choices |-> <<>>]

AiTimesOut == [kind |-> "timeout", choices |-> <<>>]

AiResponse(choices) == [kind |-> "response", choices |-> choices]

Choice(content) == [message |-> [content |-> content]]

AiTexts ==
    {<<"3", "5", "0">>, <<"~", "4", "2", " ", "7">>, <<"n", "o">>, <<"0">>,
     <<"0", "7">>, <<>>}

\* what the completion call can come back with, short of the client's timeout
AiOutcomes ==
    {AiThrows, AiResponse(<<>>), AiResponse(<<Choice(Absent)>>)}
        \cup {AiResponse(<<Choice(Some(text))>>) : text \in AiTexts}

\* the try block up to the extraction: throws when the call threw or timed
\* out, and when choices[0] is undefined
AiFailed(ai) == ai.kind # "response" \/ ai.choices = <<>>

\* a slip: no try/catch around the call and the extraction
EstimateNoCatch(ai, default) ==
    IF AiFailed(ai) THEN Threw([message |-> <<"AI call failed">>, props |-> NoProps])
    ELSE LET extractedCalories == ExtractCalories(ai.choices[1].message.content) IN
         Returned(IF extractedCalories > 0 THEN extractedCalories ELSE default)

\* the try/catch block of both statistics services: the estimate, or the
\* default the variable was initialised with
Estimate(ai, default) ==
    IF AiFailed(ai) THEN Returned(default)
    ELSE LET extractedCalories == ExtractCalories(ai.choices[1].message.content) IN
         Returned(IF extractedCalories > 0 THEN extractedCalories ELSE default)

(***************************************************************************)
(* services/workoutService.ts and services/mealService.ts                  *)
(***************************************************************************)
\* x || 0 on a number field that may be missing
OrZero(field) == IF field = Absent THEN 0 ELSE field[1]

RECURSIVE TotalSets(_)
TotalSets(exercises) ==
    IF exercises = <<>> THEN 0
    ELSE Head(exercises).sets + TotalSets(Tail(exercises))

\* a slip: the reps of an exercise counted once, not once per set
RECURSIVE TotalRepsPerSet(_)
TotalRepsPerSet(exercises) ==
    IF exercises = <<>> THEN 0
    ELSE Head(exercises).reps + TotalRepsPerSet(Tail(exercises))

RECURSIVE TotalReps(_)
TotalReps(exercises) ==
    IF exercises = <<>> THEN 0
    ELSE Head(exercises).sets * Head(exercises).reps + TotalReps(Tail(exercises))

RECURSIVE TotalWeight(_)
TotalWeight(exercises) ==
    IF exercises = <<>> THEN 0
    ELSE OrZero(Head(exercises).weight) * Head(exercises).sets * Head(exercises).reps
            + TotalWeight(Tail(exercises))

RECURSIVE TotalCalories(_)
TotalCalories(foods) ==
    IF foods = <<>> THEN 0
    ELSE OrZero(Head(foods).calories) + TotalCalories(Tail(foods))

\* a slip: the two thresholds compared with >= for >
IntensityInclusive(totalWeight) ==
    IF totalWeight >= 5000 THEN "High"
    ELSE IF totalWeight >= 2000 THEN "Medium"
    ELSE "Low"

Intensity(totalWeight) ==
    IF totalWeight > 5000 THEN "High"
    ELSE IF totalWeight > 2000 THEN "Medium"
    ELSE "Low"

\* a slip: Math.floor for Math.round
FloorDiv(a, b) == a \div b

\* Math.round of a quotient of naturals
RoundDiv(a, b) == (2 * a + b) \div (2 * b)

AverageWeightPerExercise(exercises) ==
    IF Len(exercises) > 0 THEN RoundDiv(TotalWeight(exercises), Len(exercises)) ELSE 0

\* the default the estimate starts from: let caloriesBurned = 0, let calories = 0
DefaultCaloriesBurned == 0

DefaultCalories == 0

\* calculateWorkoutStats from the workout read and the outcome of the AI call
CalculateWorkoutStats(workout, ai) ==
    LET estimate == Estimate(ai, DefaultCaloriesBurned) IN
    IF ~estimate.ok THEN estimate
    ELSE Returned([workoutId |-> workout._id,
                   date |-> workout.date,
                   totalExercises |-> Len(workout.exercises),
                   totalSets |-> TotalSets(workout.exercises),
                   totalReps |-> TotalReps(workout.exercises),
                   totalWeight |-> TotalWeight(workout.exercises),
                   caloriesBurned |-> estimate.value,
                   intensity |-> Intensity(TotalWeight(workout.exercises)),
                   averageWeightPerExercise |->
                       AverageWeightPerExercise(workout.exercises)])

\* calculateMealStats from the meal read and the outcome of the AI call
CalculateMealStats(meal, ai) ==
    LET estimate == Estimate(ai, DefaultCalories) IN
    IF ~estimate.ok THEN estimate
    ELSE Returned([mealId |-> meal._id,
                   date |-> meal.date,
                   totalCalories |-> TotalCalories(meal.foods),
                   calories |-> estimate.value])


(***************************************************************************)
(* The workout and meal requests.  create and delete are one store call    *)
(* each; a statistics call reads its record, then suspends on the AI call. *)
(***************************************************************************)
\* a request as the router and the handlers see it: the method, the path as
\* its segments, and the userId of the query string
Request(method, path, userId) == [method |-> method, path |-> path, userId |-> userId]

NoRequest == Request("", <<>>, Absent)

\* the record of the last call served; all but op, id, result and resp is history
NoCall ==
    [op |-> "none", coll |-> "none", id |-> 0, existed |-> FALSE, unchanged |-> TRUE,
     result |-> FALSE, repeat |-> "no", resp |-> NoResponse,
     data |-> NoPartial, returned |-> Null, req |-> NoRequest]

NoWorkout == NewWorkoutDoc(0, [userId |-> "", name |-> "", date |-> "", exercises |-> <<>>])

\* called and stale are history only: has the call issued its AI request, and
\* was the record read no longer the stored one when the AI call settled
IdleStats ==
    [pc |-> "idle", kind |-> "none", id |-> 0, record |-> NoWorkout, called |-> FALSE,
     stale |-> FALSE, ai |-> AiThrows, outcome |-> NoOutcome, resp |-> NoResponse]

InitRecords ==
    /\ workouts = {}
    /\ meals = {}
    /\ crud = NoCall
    /\ stats = [t \in StatsTasks |-> IdleStats]

Init ==
    /\ nextId = 1
    /\ InitUsers
    /\ InitRecords

\* POST /workout
CreateWorkout(data) ==
    /\ nextId <= MaxRecords
    /\ LET doc == NewWorkoutDoc(nextId, data) IN
       /\ workouts' = workouts \cup {doc}
       /\ crud' = [NoCall EXCEPT !.op = "create", !.coll = "workout", !.id = nextId,
                                 !.unchanged = FALSE, !.result = TRUE,
                                 !.resp = CreatedResponse(doc)]
    /\ nextId' = nextId + 1
    /\ UNCHANGED <<meals, stats, userVars>>

\* POST /meal
CreateMeal(data) ==
    /\ nextId <= MaxRecords
    /\ LET doc == NewMealDoc(nextId, data) IN
       /\ meals' = meals \cup {doc}
       /\ crud' = [NoCall EXCEPT !.op = "create", !.coll = "meal", !.id = nextId,
                                 !.unchanged = FALSE, !.result = TRUE,
                                 !.resp = CreatedResponse(doc)]
    /\ nextId' = nextId + 1
    /\ UNCHANGED <<workouts, stats, userVars>>

\* history only: was the call just before a delete of the same id, and its result
RepeatsDelete(coll, id) ==
    IF crud.op = "delete" /\ crud.coll = coll /\ crud.id = id
    THEN IF crud.result THEN "after_true" ELSE "after_false"
    ELSE "no"

\* workoutService.updateWorkout; no handler answers it
UpdateWorkout(id, data) ==
    /\ workouts' = UpdatedColl(workouts, id, data)
    /\ crud' = [NoCall EXCEPT
                   !.op = "update", !.coll = "workout", !.id = id, !.data = data,
                   !.existed = \E d \in workouts : d._id = id,
                   !.repeat = RepeatsDelete("workout", id),
                   !.unchanged = (UpdatedColl(workouts, id, data) = workouts),
                   !.returned = UpdateWorkoutResult(workouts, id, data)]
    /\ UNCHANGED <<nextId, meals, stats, userVars>>

\* mealController.updateMeal over mealService.updateMeal
UpdateMeal(id, data) ==
    /\ meals' = UpdatedColl(meals, id, data)
    /\ crud' = [NoCall EXCEPT
                   !.op = "update", !.coll = "meal", !.id = id, !.data = data,
                   !.existed = \E d \in meals : d._id = id,
                   !.repeat = RepeatsDelete("meal", id),
                   !.unchanged = (UpdatedColl(meals, id, data) = meals),
                   !.returned = UpdateMealResult(meals, id, data),
                   !.resp = UpdateMealResponse(UpdateMealResult(meals, id, data))]
    /\ UNCHANGED <<nextId, workouts, stats, userVars>>

\* a slip: the meals of the workout's user deleted with the workout
DeleteWorkoutCascade(id) ==
    /\ workouts' = WithoutId(workouts, id)
    /\ meals' = {m \in meals : \A d \in FindById(workouts, id) : m.userId # d.userId}
    /\ crud' = [NoCall EXCEPT
                   !.op = "delete", !.coll = "workout", !.id = id,
                   !.existed = \E d \in workouts : d._id = id,
                   !.unchanged = (WithoutId(workouts, id) = workouts),
                   !.result = DeleteWorkoutResult(workouts, id),
                   !.repeat = RepeatsDelete("workout", id)]
    /\ UNCHANGED <<nextId, stats, userVars>>

\* workoutService.deleteWorkout; no handler answers it
DeleteWorkout(id) ==
    /\ workouts' = WithoutId(workouts, id)
    /\ crud' = [NoCall EXCEPT
                   !.op = "delete", !.coll = "workout", !.id = id,
                   !.existed = \E d \in workouts : d._id = id,
                   !.unchanged = (WithoutId(workouts, id) = workouts),
                   !.result = DeleteWorkoutResult(workouts, id),
                   !.repeat = RepeatsDelete("workout", id)]
    /\ UNCHANGED <<nextId, meals, stats, userVars>>

\* mealController.deleteMeal over mealService.deleteMeal
DeleteMeal(id) ==
    /\ meals' = WithoutId(meals, id)
    /\ crud' = [NoCall EXCEPT
                   !.op = "delete", !.coll = "meal", !.id = id,
                   !.existed = \E d \in meals : d._id = id,
                   !.unchanged = (WithoutId(meals, id) = meals),
                   !.result = DeleteMealResult(meals, id),
                   !.repeat = RepeatsDelete("meal", id),
                   !.resp = DeleteMealResponse(DeleteMealResult(meals, id))]
    /\ UNCHANGED <<nextId, workouts, stats, userVars>>

\* mealController.getMealStats
GetMealStatsResponse(outcome) ==
    IF ~outcome.ok
    THEN Response(500, [message |-> "Internal Server Error", error |-> outcome.error.props])
    ELSE IF outcome.value = Null THEN Response(404, [message |-> "Meal not found"])
    ELSE Response(200, outcome.value)

\* the answer to a finished statistics call; no handler answers the workout one
StatsResponse(kind, outcome) ==
    IF kind = "meal" THEN GetMealStatsResponse(outcome) ELSE NoResponse

\* history only: the stored record of the id as the call settles
StoredNow(kind, id) == FindById(IF kind = "workout" THEN workouts ELSE meals, id)

\* a slip: the AI call tried again for as long as it fails
StatsRetryOnFailure(task, ai) ==
    IF AiFailed(ai) THEN task
    ELSE LET outcome == IF task.kind = "workout"
                        THEN CalculateWorkoutStats(task.record, ai)
                        ELSE CalculateMealStats(task.record, ai) IN
         [task EXCEPT !.pc = "done", !.ai = ai, !.outcome = outcome,
                      !.stale = (StoredNow(task.kind, task.id) # {task.record}),
                      !.resp = StatsResponse(task.kind, outcome)]

\* a slip: the record read again once the AI call has settled
StatsSettledReread(task, ai) ==
    LET found == StoredNow(task.kind, task.id)
        outcome == IF found = {} THEN Threw([message |-> <<"Cannot read properties of null">>,
                                              props |-> NoProps])
                   ELSE IF task.kind = "workout"
                   THEN CalculateWorkoutStats(CHOOSE d \in found : TRUE, ai)
                   ELSE CalculateMealStats(CHOOSE d \in found : TRUE, ai) IN
    [task EXCEPT !.pc = "done", !.ai = ai, !.outcome = outcome,
                 !.stale = (found # {task.record}),
                 !.resp = StatsResponse(task.kind, outcome)]

\* the rest of a statistics call once the AI call has settled
StatsSettled(task, ai) ==
    LET outcome == IF task.kind = "workout"
                   THEN CalculateWorkoutStats(task.record, ai)
                   ELSE CalculateMealStats(task.record, ai) IN
    [task EXCEPT !.pc = "done", !.ai = ai, !.outcome = outcome,
                 !.stale = (StoredNow(task.kind, task.id) # {task.record}),
                 !.resp = StatsResponse(task.kind, outcome)]

\* a slip: the record looked at only after the AI call was issued
StatsStartedNoCheck(task, kind, id, found) ==
    [task EXCEPT !.pc = "awaiting", !.kind = kind, !.id = id, !.called = TRUE,
                 !.record = IF found = {} THEN @ ELSE CHOOSE d \in found : TRUE]

\* calculateWorkoutStats / calculateMealStats up to the AI call: null when
\* findById found nothing, otherwise the prompt is built and the call issued
StatsStarted(task, kind, id, found) ==
    IF found = {}
    THEN [task EXCEPT !.pc = "done", !.kind = kind, !.id = id,
                      !.outcome = Returned(Null),
                      !.resp = StatsResponse(kind, Returned(Null))]
    ELSE [task EXCEPT !.pc = "awaiting", !.kind = kind, !.id = id, !.called = TRUE,
                      !.record = CHOOSE d \in found : TRUE]

\* a statistics call arrives and runs up to its first suspension
StatsRequest(t, kind, id) ==
    /\ stats[t].pc = "idle"
    /\ LET found == FindById(IF kind = "workout" THEN workouts ELSE meals, id) IN
       stats' = [stats EXCEPT ![t] = StatsStarted(stats[t], kind, id, found)]
    /\ UNCHANGED <<nextId, workouts, meals, crud, userVars>>

\* a slip: the statistics saved on the record they were computed from
AiReturnPersist(t, ai) ==
    /\ stats[t].pc = "awaiting"
    /\ stats' = [stats EXCEPT ![t] = StatsSettled(stats[t], ai)]
    /\ workouts' = {IF d._id = stats[t].id /\ stats[t].kind = "workout"
                    THEN [d EXCEPT !.__v = d.__v + 1] ELSE d : d \in workouts}
    /\ meals' = {IF d._id = stats[t].id /\ stats[t].kind = "meal"
                 THEN [d EXCEPT !.__v = d.__v + 1] ELSE d : d \in meals}
    /\ UNCHANGED <<nextId, crud, userVars>>

\* the AI call settles: it throws, or a response arrives
AiReturn(t, ai) ==
    /\ stats[t].pc = "awaiting"
    /\ stats' = [stats EXCEPT ![t] = StatsSettled(stats[t], ai)]
    /\ UNCHANGED <<nextId, workouts, meals, crud, userVars>>

\* the AI client gives up on a call that got no answer in its time bound
AiTimeout(t) ==
    /\ stats[t].pc = "awaiting"
    /\ stats' = [stats EXCEPT ![t] = StatsSettled(stats[t], AiTimesOut)]
    /\ UNCHANGED <<nextId, workouts, meals, crud, userVars>>

(***************************************************************************)
(* The routing table (routes/index.ts) and the list handlers.  A path is   *)
(* the tuple of its segments.                                              *)
(***************************************************************************)
Methods == {"GET", "POST", "PUT", "DELETE"}

\* the record paths a client may ask for, in the spelling of the router and
\* in the spelling of the API description
Resources == {"workout", "workouts", "meal", "meals"}

RecordPaths == {<<r>> : r \in Resources} \cup {<<r, id>> : r \in Resources, id \in RecordIds}

RecordRequests ==
    {Request("GET", <<r>>, userId) : r \in Resources, userId \in {Some(u) : u \in UserIds}}
        \cup {Request(method, path, Absent) : method \in Methods, path \in RecordPaths}

\* router.post / router.get: the handler a method and path are routed to
Route(method, path) ==
    IF method = "POST" /\ path = <<"user", "login">> THEN "login"
    ELSE IF method = "POST" /\ path = <<"user", "signup">> THEN "signup"
    ELSE IF method = "POST" /\ path = <<"workout">> THEN "createWorkout"
    ELSE IF method = "GET" /\ path = <<"workout">> THEN "getAllWorkouts"
    ELSE IF method = "POST" /\ path = <<"meal">> THEN "createMeal"
    ELSE IF method = "GET" /\ path = <<"meal">> THEN "getAllMeals"
    ELSE "none"

\* req.params of a routed request: no route has a named segment
ReqParams(path) == <<>>

\* req.params.name: undefined when the route has no such segment
Param(params, name) == IF name \in DOMAIN params THEN Some(params[name]) ELSE Absent

\* this.find({ userId: userId }): the documents the store may answer with.
\* An undefined value in the filter reaches the store as null, which no
\* record's userId is, unless the client drops undefined values, and then
\* the filter is empty and matches every record.
FindByUser(coll, userId) ==
    IF userId = Absent THEN {{}, coll}
    ELSE {{d \in coll : d.userId = userId[1]}}

\* res.json of an array of documents
ListResponse(docs) == Response(200, {RecordToJSON(d) : d \in docs})

\* workoutController.getAllWorkouts
GetAllWorkouts(req) ==
    /\ Route(req.method, req.path) = "getAllWorkouts"
    /\ \E found \in FindByUser(workouts, Param(ReqParams(req.path), "userId")) :
         crud' = [NoCall EXCEPT !.op = "list", !.coll = "workout", !.req = req,
                                !.resp = ListResponse(found)]
    /\ UNCHANGED <<nextId, workouts, meals, stats, userVars>>

\* mealController.getAllMeals
GetAllMeals(req) ==
    /\ Route(req.method, req.path) = "getAllMeals"
    /\ LET userId == Param(ReqParams(req.path), "useId") IN
       IF Falsy(userId)
       THEN crud' = [NoCall EXCEPT !.op = "list", !.coll = "meal", !.req = req,
                                   !.resp = Response(401, [message |-> "Unauthorized"])]
       ELSE \E found \in FindByUser(meals, userId) :
              crud' = [NoCall EXCEPT !.op = "list", !.coll = "meal", !.req = req,
                                     !.resp = ListResponse(found)]
    /\ UNCHANGED <<nextId, workouts, meals, stats, userVars>>

\* the collection a record path names, in either spelling
PathCollection(path) == IF path[1] \in {"workout", "workouts"} THEN "workout" ELSE "meal"

\* history only: does the path end in the id of a stored record of its collection
PathRecordExists(path) ==
    /\ Len(path) = 2
    /\ \E d \in (IF PathCollection(path) = "workout" THEN workouts ELSE meals) :
         d._id = path[2]

\* a request no route matches: the framework answers 404, no handler runs
Unrouted(req) ==
    /\ Route(req.method, req.path) = "none"
    /\ crud' = [NoCall EXCEPT
                   !.op = "unrouted", !.coll = PathCollection(req.path), !.req = req,
                   !.id = IF Len(req.path) = 2 THEN req.path[2] ELSE 0,
                   !.existed = PathRecordExists(req.path),
                   !.resp = Response(404, [cannot |-> req.method])]
    /\ UNCHANGED <<nextId, workouts, meals, stats, userVars>>

(***************************************************************************)
(* The middleware in front of the router (middleware/index.ts): the JSON    *)
(* body parser, the validator of requests against openapi.yaml, and the     *)
(* error handler that answers what either of them raises.                   *)
(***************************************************************************)
\* a request body as it arrives: JSON text that parses to a value, or not
Malformed == [parsed |-> FALSE]

Json(value) == [parsed |-> TRUE, value |-> value]

\* the signup and login bodies a client may send for one email and one
\* password, a two-letter username and text that is not JSON among them
RawSignupBodies ==
    {Malformed}
        \cup {Json(b) : b \in [username : Usernames \cup {Some("jo")},
                                email : {Absent, Some("a@x.com")},
                                password : {Absent, Some("secret1")}]}

RawLoginBodies ==
    {Malformed}
        \cup {Json(b) : b \in [email : {Absent, Some("a@x.com")},
                                password : {Absent, Some("secret1")}]}

\* express.json() on text that is not JSON: an error with status 400 and no
\* errors property
JsonParseError == [status |-> 400, message |-> "entity.parse.failed", errors |-> Absent]

\* one violation as the validator reports it
Violation(path, errorCode) == [path |-> path, errorCode |-> errorCode]

\* required: the listed properties that the body does not have
RequiredViolations(body, required) ==
    {Violation(<<"body", f>>, "required.openapi.validation") :
        f \in {g \in required : body[g] = Absent}}

\* minLength: a string property of the body shorter than the length
MinLengthViolations(body, f, length) ==
    IF body[f] # Absent /\ Len(body[f][1]) < length
    THEN {Violation(<<"body", f>>, "minLength.openapi.validation")}
    ELSE {}

\* openapi.yaml, SignupRequest: username, email and password required,
\* username of 3 characters or more, password of 6 or more
SignupViolations(body) ==
    RequiredViolations(body, {"username", "email", "password"})
        \cup MinLengthViolations(body, "username", 3)
        \cup MinLengthViolations(body, "password", 6)

\* openapi.yaml, LoginRequest: email and password required
LoginViolations(body) == RequiredViolations(body, {"email", "password"})

\* the validator's error for a request that does not match: status 400 and
\* the list of violations
BadRequest(violations) ==
    [status |-> 400, message |-> "request/body invalid", errors |-> Some(violations)]

\* the global error handler: the status and the errors of an error that has
\* both, 500 and the message for any other
ErrorHandler(err) ==
    IF err.status # 0 /\ err.errors # Absent
    THEN Response(err.status, [message |-> err.message, errors |-> err.errors[1]])
    ELSE Response(500, [message |-> err.message])

\* what the body parser or the validator raises on a body, if anything
MiddlewareError(raw, violations) ==
    IF ~raw.parsed THEN Some(JsonParseError)
    ELSE IF violations # {} THEN Some(BadRequest(violations))
    ELSE Absent

\* a request that the middleware refused, answered by the error handler
Refused(handler, err) ==
    /\ crud' = [NoCall EXCEPT !.op = "refused", !.coll = handler,
                              !.resp = ErrorHandler(err)]
    /\ UNCHANGED <<nextId, workouts, meals, stats, userVars>>

\* POST /user/signup through the middleware: the error handler answers a body
\* the parser or the validator refuses, the router hands any other to signup
AppSignup(t, raw) ==
    LET err == MiddlewareError(raw, IF raw.parsed THEN SignupViolations(raw.value) ELSE {}) IN
    IF err # Absent THEN Refused("signup", err[1]) ELSE SignupRequest(t, raw.value)

\* POST /user/login through the middleware
AppLogin(raw) ==
    LET err == MiddlewareError(raw, IF raw.parsed THEN LoginViolations(raw.value) ELSE {}) IN
    IF err # Absent THEN Refused("login", err[1]) ELSE Login(raw.value)

\* the user routes as server.ts assembles them: setupMiddleware, then the router
NextApp ==
    \/ \E t \in SignupTasks, raw \in RawSignupBodies : AppSignup(t, raw)
    \/ \E t \in SignupTasks : SignupFind(t)
    \/ \E t \in SignupTasks : SignupCreate(t)
    \/ \E raw \in RawLoginBodies : AppLogin(raw)

\* the requests for records as the router serves them
NextHttp ==
    \/ \E data \in {b \in WorkoutBodies : Len(b.exercises) < 2} : CreateWorkout(data)
    \/ \E data \in {b \in MealBodies : Len(b.foods) < 2} : CreateMeal(data)
    \/ \E req \in RecordRequests : GetAllWorkouts(req)
    \/ \E req \in RecordRequests : GetAllMeals(req)
    \/ \E req \in RecordRequests : Unrouted(req)

NextCrud ==
    \/ \E data \in WorkoutBodies : CreateWorkout(data)
    \/ \E data \in MealBodies : CreateMeal(data)
    \/ \E id \in RecordIds : DeleteWorkout(id)
    \/ \E id \in RecordIds : DeleteMeal(id)

\* an update does not read userId, and of the exercises and foods it reads
\* only whether the data has them: one user's records with no or some
\* exercises or foods are enough for it
NextUpdate ==
    \/ \E data \in {b \in WorkoutBodies : b.userId = "u1" /\ Len(b.exercises) < 2} :
          CreateWorkout(data)
    \/ \E data \in {b \in MealBodies : b.userId = "u1" /\ Len(b.foods) < 2} :
          CreateMeal(data)
    \/ \E id \in RecordIds, data \in PartialWorkouts : UpdateWorkout(id, data)
    \/ \E id \in RecordIds, data \in PartialMeals : UpdateMeal(id, data)

\* updates and deletes meeting on the same records: an update and a delete
\* are one call to the store each (findByIdAndUpdate, findByIdAndDelete), so
\* concurrent calls are served in some order, one after the other
NextRace ==
    \/ \E data \in {b \in WorkoutBodies : b.userId = "u1" /\ Len(b.exercises) = 0} :
          CreateWorkout(data)
    \/ \E data \in {b \in MealBodies : b.userId = "u1" /\ Len(b.foods) = 0} :
          CreateMeal(data)
    \/ \E id \in RecordIds, data \in RaceWorkouts : UpdateWorkout(id, data)
    \/ \E id \in RecordIds, data \in RaceMeals : UpdateMeal(id, data)
    \/ \E id \in RecordIds : DeleteWorkout(id)
    \/ \E id \in RecordIds : DeleteMeal(id)

\* a statistics call and the updates and deletes of its record that are
\* served while its AI call is pending: one record, a workout or a meal
NextSnapshot ==
    \/ \E data \in {b \in WorkoutBodies : b.userId = "u1" /\ Len(b.exercises) = 2} :
          nextId = 1 /\ CreateWorkout(data)
    \/ \E data \in {b \in MealBodies : b.userId = "u1" /\ Len(b.foods) = 3} :
          nextId = 1 /\ CreateMeal(data)
    \/ \E data \in {d \in PartialWorkouts : d.exercises # Absent} : UpdateWorkout(1, data)
    \/ \E data \in {d \in PartialMeals : d.foods # Absent} : UpdateMeal(1, data)
    \/ DeleteWorkout(1)
    \/ DeleteMeal(1)
    \/ \E t \in StatsTasks, kind \in {"workout", "meal"} : StatsRequest(t, kind, 1)
    \/ \E t \in StatsTasks, ai \in {AiThrows, AiResponse(<<Choice(Some(<<"3", "5", "0">>))>>)} :
          AiReturn(t, ai)
    \/ \E t \in StatsTasks : AiTimeout(t)

\* every operation of the services side by side, cut down to what a frame
\* needs: one signup and one login, records of one user with no exercises
\* and no foods, and the update, delete and statistics of the first id
NextFrame ==
    \/ SignupRequest(1, [username |-> Some("john"), email |-> Some("a@x.com"),
                         password |-> Some("secret1")])
    \/ SignupFind(1)
    \/ SignupCreate(1)
    \/ Login([email |-> Some("a@x.com"), password |-> Some("secret1")])
    \/ \E data \in {b \in WorkoutBodies : b.userId = "u1" /\ Len(b.exercises) = 0} :
          CreateWorkout(data)
    \/ \E data \in {b \in MealBodies : b.userId = "u1" /\ Len(b.foods) = 0} :
          CreateMeal(data)
    \/ UpdateWorkout(1, [name |-> Some("Push Day"), exercises |-> Absent])
    \/ UpdateMeal(1, [name |-> Some("Dinner"), foods |-> Absent])
    \/ DeleteWorkout(1)
    \/ DeleteMeal(1)
    \/ GetAllWorkouts(Request("GET", <<"workout">>, Some("u1")))
    \/ GetAllMeals(Request("GET", <<"meal">>, Some("u1")))
    \/ \E kind \in {"workout", "meal"} : StatsRequest(1, kind, 1)
    \/ AiReturn(1, AiThrows)
    \/ AiTimeout(1)

\* the statistics do not read userId: one user's records are enough for them
NextStats ==
    \/ \E data \in {b \in WorkoutBodies : b.userId = "u1"} : CreateWorkout(data)
    \/ \E data \in {b \in MealBodies : b.userId = "u1"} : CreateMeal(data)
    \/ \E t \in StatsTasks, kind \in {"workout", "meal"}, id \in RecordIds :
          StatsRequest(t, kind, id)
    \/ \E t \in StatsTasks, ai \in AiOutcomes : AiReturn(t, ai)
    \/ \E t \in StatsTasks : AiTimeout(t)

(***************************************************************************)
(* The workout statistics on their own: one stored workout, drawn from     *)
(* workouts on and around the intensity thresholds and with averages that  *)
(* are not whole, and AI responses of more shapes.                         *)
(***************************************************************************)
CalcExerciseLists ==
    ExerciseLists \cup
    {<<Exercise("deadlift", 5, 10, Some(100))>>,
     <<Exercise("deadlift", 5, 10, Some(100)), Exercise("curl", 1, 1, Some(1))>>,
     <<Exercise("row", 2, 10, Some(100))>>,
     <<Exercise("row", 2, 10, Some(100)), Exercise("curl", 1, 1, Some(1))>>,
     <<Exercise("curl", 1, 1, Some(2)), Exercise("curl", 1, 1, Some(3))>>,
     <<Exercise("curl", 1, 1, Some(2)), Exercise("curl", 1, 1, Some(3)),
       Exercise("plank", 3, 1, Absent)>>,
     <<Exercise("curl", 1, 1, Some(2)), Exercise("curl", 1, 1, Some(2)),
       Exercise("plank", 3, 1, Absent)>>}

CalcWorkoutBodies ==
    [userId : {"u1"}, name : {"Leg Day"}, date : {"2024-01-01"},
     exercises : CalcExerciseLists]

CalcAiTexts ==
    AiTexts \cup
    {<<"0", " ", "7">>, <<"-", "5">>, <<"1", ".", "5">>, <<"a", "1", "2", "b", "3", "4">>}

CalcAiOutcomes ==
    AiOutcomes \cup {AiResponse(<<Choice(Some(text))>>) : text \in CalcAiTexts}

\* the state after one POST /workout
InitWorkoutStats ==
    /\ nextId = 2
    /\ InitUsers
    /\ meals = {}
    /\ stats = [t \in StatsTasks |-> IdleStats]
    /\ \E data \in CalcWorkoutBodies :
         /\ workouts = {NewWorkoutDoc(1, data)}
         /\ crud = [NoCall EXCEPT !.op = "create", !.coll = "workout", !.id = 1,
                                  !.unchanged = FALSE, !.result = TRUE,
                                  !.resp = CreatedResponse(NewWorkoutDoc(1, data))]

NextWorkoutStats ==
    \/ \E t \in StatsTasks, id \in RecordIds : StatsRequest(t, "workout", id)
    \/ \E t \in StatsTasks, ai \in CalcAiOutcomes : AiReturn(t, ai)
    \/ \E t \in StatsTasks : AiTimeout(t)

(***************************************************************************)
(* Specifications: the user service, the record access layer, and the      *)
(* statistics calls.  The AI client bounds a call by its timeout, so a     *)
(* pending call does not wait for ever.                                    *)
(***************************************************************************)
Next == NextUser \/ NextApp \/ NextCrud \/ NextUpdate \/ NextRace \/ NextSnapshot \/ NextFrame \/ NextHttp \/ NextStats

Spec == Init /\ [][Next]_vars

SpecUser == Init /\ [][NextUser]_vars

SpecCrud == Init /\ [][NextCrud]_vars

SpecHttp == Init /\ [][NextHttp]_vars

SpecUpdate == Init /\ [][NextUpdate]_vars

SpecRace == Init /\ [][NextRace]_vars

SpecSnapshot == Init /\ [][NextSnapshot]_vars

SpecFrame == Init /\ [][NextFrame]_vars

SpecApp == Init /\ [][NextApp]_vars

SpecStats == Init /\ [][NextStats]_vars

SpecWorkoutStats == InitWorkoutStats /\ [][NextWorkoutStats]_vars

SpecStatsFair == SpecStats /\ \A t \in StatsTasks : WF_vars(AiTimeout(t))

(***************************************************************************)
(* Properties of the user service                                          *)
(***************************************************************************)
SignupFinished(t) == signup[t].pc = "done"

\* the credentials a signup body logs in with
CredentialsOf(body) == [email |-> body.email, password |-> body.password]

UnknownEmail(c) == \A u \in users : Some(u.email) # c.email

WrongPassword(c) ==
    /\ c.password # Absent
    /\ \E u \in users : Some(u.email) = c.email
    /\ \A u \in users :
         Some(u.email) = c.email => \A salt \in Salts :
             u.password # <<"$2b$", SaltRounds, salt, <<salt, c.password[1]>>>>

Unauthorized == Response(401, [message |-> "Invalid credentials"])

\* C2: on every reachable user collection, a login with an unknown email and
\* a login with a registered email and a wrong password fail with the same
\* error and get the same 401 response, which carries no token.
C2_InvalidCredentialsUniform ==
    /\ \A c1, c2 \in LoginBodies :
         (UnknownEmail(c1) /\ WrongPassword(c2)) =>
             /\ AuthenticateUser(users, c1) = Threw(ErrInvalidCredentials)
             /\ AuthenticateUser(users, c2) = AuthenticateUser(users, c1)
             /\ LoginResponse(AuthenticateUser(users, c1)) = Unauthorized
             /\ LoginResponse(AuthenticateUser(users, c2)) = Unauthorized
    /\ (lastLogin.served /\ (~lastLogin.found \/ WrongPassword(lastLogin.credentials))) =>
         /\ lastLogin.resp = Unauthorized
         /\ "token" \notin DOMAIN lastLogin.resp.body

\* C2 witness: a login with a registered email and a wrong password was
\* answered 401.
C2_Witness ==
    /\ lastLogin.served /\ lastLogin.found
    /\ WrongPassword(lastLogin.credentials)
    /\ lastLogin.resp.status = 401

\* C3 as stated: a register call with an email a stored user already holds is
\* answered 409 whatever its username and password, empty or missing included.
C3_DuplicateAlways409 ==
    \A t \in SignupTasks :
        (SignupFinished(t) /\ signup[t].held) => signup[t].resp.status = 409

\* C3 amended: a register call with an email a stored user already holds fails
\* with the already-exists error (409) whatever its non-empty username and
\* password are; with an empty or missing username or password it fails with
\* the all-fields-required validation error (400).  It never creates a user.
C3_DuplicateEmailRejected ==
    \A t \in SignupTasks :
        (SignupFinished(t) /\ signup[t].held) =>
            IF Falsy(signup[t].body.username) \/ Falsy(signup[t].body.password)
            THEN /\ signup[t].outcome = Threw(ErrAllFields)
                 /\ signup[t].resp.status = 400
            ELSE /\ signup[t].outcome = Threw(ErrUserExists)
                 /\ signup[t].resp =
                        Response(409, [message |-> "User with this email already exists"])

\* C3 witness: a signup with a held email and a password other than the
\* holder's was answered 409.
C3_Witness ==
    \E t \in SignupTasks :
        /\ SignupFinished(t) /\ signup[t].held /\ signup[t].resp.status = 409
        /\ \E u \in users :
             /\ Some(u.email) = signup[t].body.email
             /\ ~BcryptCompare(signup[t].body.password[1], u.password)

\* C4: in every reachable state no two stored users have the same email.
C4_EmailUnique ==
    \A u1, u2 \in users : u1.email = u2.email => u1 = u2

\* C4 witness: two signups with one email both passed the lookup, and the
\* insert of the second was refused by the store.
C4_Witness ==
    \E t1, t2 \in SignupTasks :
        /\ t1 # t2
        /\ SignupFinished(t1) /\ signup[t1].outcome.ok
        /\ SignupFinished(t2) /\ signup[t2].resp.status = 500
        /\ signup[t1].body.email = signup[t2].body.email
        /\ ~signup[t2].held

\* no password key in a response body, whichever of the handlers' shapes it has
NoPasswordIn(resp) ==
    /\ "password" \notin DOMAIN resp.body
    /\ resp.status = 200 =>
         /\ "password" \notin DOMAIN resp.body.user
         /\ "password" \notin DOMAIN resp.body.token
    /\ resp.status = 500 =>
         /\ "password" \notin DOMAIN resp.body.error
         /\ "keyValue" \in DOMAIN resp.body.error =>
              "password" \notin DOMAIN resp.body.error.keyValue

\* C5: no response body of signup or login, on success or failure, and no
\* JSON serialization of a stored user, has a password field.
C5_NoPasswordSerialized ==
    /\ \A t \in SignupTasks : SignupFinished(t) => NoPasswordIn(signup[t].resp)
    /\ lastLogin.served => NoPasswordIn(lastLogin.resp)
    /\ \A c \in LoginBodies : NoPasswordIn(LoginResponse(AuthenticateUser(users, c)))
    /\ \A u \in users : "password" \notin DOMAIN UserToJSON(u)

\* C5 witness: a signup answered 200, a signup answered 500 with the store's
\* error in the body, and a login answered 200.
C5_Witness ==
    /\ \E t \in SignupTasks : SignupFinished(t) /\ signup[t].resp.status = 200
    /\ \E t \in SignupTasks : SignupFinished(t) /\ signup[t].resp.status = 500
    /\ lastLogin.served /\ lastLogin.resp.status = 200

\* C6: every stored user was created by a successful register call and holds
\* the salted hash of that call's password, never the password itself.
C6_PasswordStoredHashed ==
    \A u \in users :
        \E t \in SignupTasks :
            /\ SignupFinished(t) /\ signup[t].outcome.ok
            /\ signup[t].outcome.value.user._id = u._id
            /\ u.password # signup[t].body.password
            /\ \E salt \in Salts :
                 u.password =
                    <<"$2b$", SaltRounds, salt, <<salt, signup[t].body.password[1]>>>>

\* C6 witness: two users registered with the same password hold different
\* stored values.
C6_Witness ==
    \E t1, t2 \in SignupTasks, u1, u2 \in users :
        /\ SignupFinished(t1) /\ signup[t1].outcome.ok
        /\ SignupFinished(t2) /\ signup[t2].outcome.ok
        /\ signup[t1].outcome.value.user._id = u1._id
        /\ signup[t2].outcome.value.user._id = u2._id
        /\ u1 # u2
        /\ signup[t1].body.password = signup[t2].body.password
        /\ u1.password # u2.password

(***************************************************************************)
(* Properties of the record access layer and of the statistics calls       *)
(***************************************************************************)
CollectionOf(coll) == IF coll = "workout" THEN workouts ELSE meals

\* C7: a delete of a workout or meal returns true iff a record with the id
\* existed, and then the record is gone; on an id with no record it returns
\* false and the collection is as before; a delete right after a delete of
\* the same id returns false, and the meal handler answers 200 then 404.
C7_DeleteReportsRemoval ==
    crud.op = "delete" =>
        /\ crud.result = crud.existed
        /\ \A d \in CollectionOf(crud.coll) : d._id # crud.id
        /\ crud.unchanged = ~crud.existed
        /\ crud.repeat # "no" => ~crud.result
        /\ crud.coll = "meal" => crud.resp.status = IF crud.result THEN 200 ELSE 404

\* C7 witness: a meal delete that returned true was followed by a delete of
\* the same id, answered 404.
C7_Witness ==
    /\ crud.op = "delete" /\ crud.coll = "meal"
    /\ crud.repeat = "after_true"
    /\ crud.resp.status = 404

StatsFinished(t) == stats[t].pc = "done"

\* the statistics call found its record
StatsFound(t) == stats[t].record # NoWorkout

\* the calorie field of a statistics result
CalorieField(t) ==
    IF stats[t].kind = "workout" THEN stats[t].outcome.value.caloriesBurned
    ELSE stats[t].outcome.value.calories

\* C8: a statistics call on an existing record returns a result with a
\* numeric calorie field whatever the AI call did: threw, timed out, or
\* answered with no choices, a null content or any text.
C8_StatsNeverRaise ==
    \A t \in StatsTasks :
        (StatsFinished(t) /\ StatsFound(t)) =>
            /\ stats[t].outcome.ok
            /\ CalorieField(t) \in Nat
            /\ stats[t].kind = "meal" => stats[t].resp.status = 200

\* C8 witness: a meal statistics call whose AI response had no choices
\* has returned.
C8_Witness ==
    \E t \in StatsTasks :
        /\ StatsFinished(t) /\ StatsFound(t)
        /\ stats[t].kind = "meal"
        /\ stats[t].ai = AiResponse(<<>>)

NoEstimate(ai) ==
    \/ ai.kind # "response"
    \/ ai.choices = <<>>
    \/ ExtractCalories(ai.choices[1].message.content) <= 0

\* C10: in a meal statistics result, when the AI call failed or its response
\* held no positive integer, the calorie estimate is the sum of the calories
\* of the meal's foods.
C10_MealFallbackIsTotal ==
    \A t \in StatsTasks :
        (StatsFinished(t) /\ StatsFound(t) /\ stats[t].kind = "meal"
            /\ stats[t].outcome.ok /\ NoEstimate(stats[t].ai)) =>
                stats[t].outcome.value.calories = TotalCalories(stats[t].record.foods)

(***************************************************************************)
(* Properties of the workout statistics                                    *)
(***************************************************************************)
WorkoutStatsDone(t) ==
    StatsFinished(t) /\ StatsFound(t) /\ stats[t].kind = "workout" /\ stats[t].outcome.ok

HasDigit(text) == \E i \in 1..Len(text) : text[i] \in Digits

\* where the first run of decimal digits of a text starts and where it ends
FirstDigit(text) ==
    CHOOSE i \in 1..Len(text) :
        text[i] \in Digits /\ \A j \in 1..(i - 1) : text[j] \notin Digits

LastOfRun(text, i) ==
    CHOOSE j \in i..Len(text) :
        /\ \A k \in i..j : text[k] \in Digits
        /\ j = Len(text) \/ text[j + 1] \notin Digits

RECURSIVE Pow10(_)
Pow10(n) == IF n = 0 THEN 1 ELSE 10 * Pow10(n - 1)

RECURSIVE NumberAt(_, _, _)
NumberAt(text, i, j) ==
    IF i > j THEN 0
    ELSE DigitValue(text[i]) * Pow10(j - i) + NumberAt(text, i + 1, j)

\* the first integer of a text: its first run of decimal digits, in base ten
FirstInteger(text) == NumberAt(text, FirstDigit(text), LastOfRun(text, FirstDigit(text)))

\* the estimate a workout statistics call should return for an AI outcome
ExpectedCaloriesBurned(ai) ==
    IF ai.kind # "response" THEN 0
    ELSE IF ai.choices = <<>> THEN 0
    ELSE IF ai.choices[1].message.content = Absent THEN 0
    ELSE IF ~HasDigit(ai.choices[1].message.content[1]) THEN 0
    ELSE IF FirstInteger(ai.choices[1].message.content[1]) > 0
         THEN FirstInteger(ai.choices[1].message.content[1])
         ELSE 0

\* C11: caloriesBurned of a workout statistics result is the first integer
\* (the first run of decimal digits) of the AI response text when it is
\* positive, and 0 when the text has no digit, the integer is 0, the content
\* is null, the response has no choice, or the call threw or timed out.
C11_CaloriesBurnedFirstInteger ==
    \A t \in StatsTasks :
        (StatsFinished(t) /\ StatsFound(t) /\ stats[t].kind = "workout") =>
            /\ stats[t].outcome.ok
            /\ stats[t].outcome.value.caloriesBurned = ExpectedCaloriesBurned(stats[t].ai)

\* C11 witness: a response text with two integers gave the first of them.
C11_Witness ==
    \E t \in StatsTasks :
        /\ WorkoutStatsDone(t)
        /\ stats[t].ai = AiResponse(<<Choice(Some(<<"a", "1", "2", "b", "3", "4">>))>>)
        /\ stats[t].outcome.value.caloriesBurned = 12

\* the sum of f[1] .. f[n]
RECURSIVE SumTo(_, _)
SumTo(f, n) == IF n = 0 THEN 0 ELSE SumTo(f, n - 1) + f[n]

\* the weight of an exercise, none counting as 0
WeightOf(e) == IF e.weight = Absent THEN 0 ELSE e.weight[1]

SetsSum(ex) == SumTo([i \in 1..Len(ex) |-> ex[i].sets], Len(ex))

RepsSum(ex) == SumTo([i \in 1..Len(ex) |-> ex[i].sets * ex[i].reps], Len(ex))

WeightSum(ex) ==
    SumTo([i \in 1..Len(ex) |-> WeightOf(ex[i]) * ex[i].sets * ex[i].reps], Len(ex))

ExampleExercises ==
    <<Exercise("squat", 3, 10, Some(100)), Exercise("press", 2, 8, Some(50))>>

\* C12: whatever the AI call did, a workout statistics result has totalSets
\* the sum of sets, totalReps the sum of sets*reps and totalWeight the sum of
\* weight*sets*reps over the exercises; for [{3,10,100},{2,8,50}] these are
\* 5, 46 and 3800, with intensity "Medium" and averageWeightPerExercise 1900.
C12_WorkoutTotals ==
    \A t \in StatsTasks :
        (StatsFinished(t) /\ StatsFound(t) /\ stats[t].kind = "workout") =>
            LET ex == stats[t].record.exercises
                v == stats[t].outcome.value IN
            /\ stats[t].outcome.ok
            /\ v.totalSets = SetsSum(ex)
            /\ v.totalReps = RepsSum(ex)
            /\ v.totalWeight = WeightSum(ex)
            /\ ex = ExampleExercises =>
                 /\ v.totalSets = 5 /\ v.totalReps = 46 /\ v.totalWeight = 3800
                 /\ v.intensity = "Medium" /\ v.averageWeightPerExercise = 1900

\* C12 witness: the statistics of the example workout were returned after
\* the AI call threw.
C12_Witness ==
    \E t \in StatsTasks :
        /\ WorkoutStatsDone(t)
        /\ stats[t].record.exercises = ExampleExercises
        /\ stats[t].ai = AiThrows
        /\ stats[t].outcome.value.totalReps = 46

\* C13: the intensity of a workout statistics result is "High" iff the sum of
\* weight*sets*reps is above 5000, "Medium" iff it is above 2000 and at most
\* 5000, "Low" iff it is at most 2000 (so for no exercises), whatever the AI
\* call did.
C13_IntensityTiers ==
    \A t \in StatsTasks :
        (StatsFinished(t) /\ StatsFound(t) /\ stats[t].kind = "workout") =>
            LET total == WeightSum(stats[t].record.exercises)
                intensity == stats[t].outcome.value.intensity IN
            /\ stats[t].outcome.ok
            /\ intensity \in {"High", "Medium", "Low"}
            /\ intensity = "High" <=> total > 5000
            /\ intensity = "Medium" <=> (2000 < total /\ total <= 5000)
            /\ intensity = "Low" <=> total <= 2000

\* C13 witness: a workout of exactly 5000 was rated Medium with a positive
\* AI estimate.
C13_Witness ==
    \E t \in StatsTasks :
        /\ WorkoutStatsDone(t)
        /\ WeightSum(stats[t].record.exercises) = 5000
        /\ stats[t].outcome.value.intensity = "Medium"
        /\ stats[t].outcome.value.caloriesBurned > 0

\* C14 as stated: averageWeightPerExercise is totalWeight divided by the
\* number of exercises, also when the one is no multiple of the other, and 0
\* for no exercises.
C14_AverageIsQuotient ==
    \A t \in StatsTasks :
        (StatsFinished(t) /\ StatsFound(t) /\ stats[t].kind = "workout") =>
            LET n == Len(stats[t].record.exercises)
                total == WeightSum(stats[t].record.exercises)
                average == stats[t].outcome.value.averageWeightPerExercise IN
            IF n = 0 THEN average = 0 ELSE average * n = total

\* C14 amended: averageWeightPerExercise is totalWeight divided by the number
\* of exercises rounded to the nearest integer, a half rounded up, and 0 for
\* no exercises.
C14_AverageIsRoundedQuotient ==
    \A t \in StatsTasks :
        (StatsFinished(t) /\ StatsFound(t) /\ stats[t].kind = "workout") =>
            LET n == Len(stats[t].record.exercises)
                total == WeightSum(stats[t].record.exercises)
                average == stats[t].outcome.value.averageWeightPerExercise IN
            /\ stats[t].outcome.ok
            /\ average \in Nat
            /\ IF n = 0 THEN average = 0
               ELSE /\ 2 * n * average <= 2 * total + n
                    /\ 2 * total + n < 2 * n * average + 2 * n

\* C14 witness: two exercises of total weight 5 gave the average 3.
C14_Witness ==
    \E t \in StatsTasks :
        /\ WorkoutStatsDone(t)
        /\ Len(stats[t].record.exercises) = 2
        /\ WeightSum(stats[t].record.exercises) = 5
        /\ stats[t].outcome.value.averageWeightPerExercise = 3

\* no record of the collection the call reads has the id the call names
NoRecordFor(t) == \A d \in CollectionOf(stats[t].kind) : d._id # stats[t].id

\* C15: a statistics call on an id with no stored record returns the null
\* sentinel without raising, which the meal statistics handler answers 404,
\* and issues no AI call: the AI call is issued only for a record found.
C15_NotFoundNoAiCall ==
    \A t \in StatsTasks :
        /\ stats[t].called => (StatsFound(t) /\ ~NoRecordFor(t))
        /\ (StatsFinished(t) /\ NoRecordFor(t)) =>
             /\ stats[t].outcome = Returned(Null)
             /\ ~stats[t].called
             /\ stats[t].kind = "meal" =>
                  stats[t].resp = Response(404, [message |-> "Meal not found"])

\* C15 witness: with a meal stored, a meal statistics call on another id was
\* answered 404.
C15_Witness ==
    \E t \in StatsTasks :
        /\ StatsFinished(t) /\ NoRecordFor(t)
        /\ stats[t].kind = "meal"
        /\ meals # {}
        /\ stats[t].resp.status = 404

(***************************************************************************)
(* Properties of update, of the list requests and of the routes            *)
(***************************************************************************)
\* C16: an update of a workout or a meal whose id has a record changes the
\* fields present in the data and nothing else of that record, leaves every
\* other record and the other collection as they were, and returns the
\* record as updated (the meal handler answers it 200); an update whose id
\* has no record returns null (the meal handler answers 404) and creates and
\* changes nothing.
C16_UpdatePartial ==
    [][crud'.op = "update" =>
        LET before == IF crud'.coll = "workout" THEN workouts ELSE meals
            after == IF crud'.coll = "workout" THEN workouts' ELSE meals'
            id == crud'.id
            data == crud'.data IN
        /\ crud'.coll = "workout" => meals' = meals
        /\ crud'.coll = "meal" => workouts' = workouts
        /\ \A d \in before : d._id # id => d \in after
        /\ \A d \in after : d._id # id => d \in before
        /\ IF \E d \in before : d._id = id
           THEN \E old \in before :
                  /\ old._id = id
                  /\ \E new \in after :
                       /\ \A d \in after : d._id = id => d = new
                       /\ DOMAIN new = DOMAIN old
                       /\ \A f \in DOMAIN old :
                            new[f] = IF f \in DOMAIN data /\ data[f] # Absent
                                     THEN data[f][1] ELSE old[f]
                       /\ crud'.returned = new
                       /\ crud'.coll = "meal" =>
                            /\ crud'.resp.status = 200
                            /\ \A f \in DOMAIN crud'.resp.body : crud'.resp.body[f] = new[f]
           ELSE /\ after = before
                /\ crud'.returned = Null
                /\ crud'.coll = "meal" =>
                     crud'.resp = Response(404, [message |-> "Meal not found"])]_vars

\* C16 witness: with two meals stored, an update of the name of one returned
\* it with the new name and the foods it had.
C16_Witness ==
    /\ crud.op = "update" /\ crud.coll = "meal" /\ crud.existed
    /\ crud.data.name = Some("Dinner") /\ crud.data.foods = Absent
    /\ crud.resp.status = 200
    /\ crud.returned.name = "Dinner"
    /\ crud.returned.foods = <<Food("rice", 1, Some(200))>>
    /\ Cardinality(meals) = 2
    /\ ~crud.unchanged

\* the answer a list request for one user's records should get
OwnRecords(coll, userId) == {RecordToJSON(d) : d \in {r \in coll : Some(r.userId) = userId}}

\* the last request served was a GET with a userId in its query that reached
\* the list handler of a collection
ListRequested(coll) ==
    /\ crud.op = "list" /\ crud.coll = coll
    /\ crud.req.method = "GET"
    /\ crud.req.userId # Absent

\* C17: a GET of the list of meals with userId = u in the query is answered
\* 200 with exactly the stored meals whose userId is u.
C17_MealListByUser ==
    ListRequested("meal") =>
        /\ crud.resp.status = 200
        /\ crud.resp.body = OwnRecords(meals, crud.req.userId)

\* C18: a GET of the list of workouts with userId = u in the query is
\* answered 200 with exactly the stored workouts whose userId is u, none of
\* another user among them.
C18_WorkoutListByUser ==
    ListRequested("workout") =>
        /\ crud.resp.status = 200
        /\ crud.resp.body = OwnRecords(workouts, crud.req.userId)
        /\ \A d \in crud.resp.body : Some(d.userId) = crud.req.userId

\* the last request served named a record of a collection by its id
RecordRequested(method, coll) ==
    /\ crud.req.method = method /\ Len(crud.req.path) = 2
    /\ PathCollection(crud.req.path) = coll

\* C19: a POST of a workout with exercises [] is answered 201 with a record
\* whose exercises is []; a GET of the id of a stored workout is answered
\* with that record; a DELETE of it is answered {success: true}, and a DELETE
\* of an id with no workout is answered 404.
C19_WorkoutLifecycle ==
    /\ (crud.op = "create" /\ crud.coll = "workout") =>
         /\ crud.resp.status = 201
         /\ \E d \in workouts : d._id = crud.id /\ crud.resp.body = RecordToJSON(d)
    /\ (RecordRequested("GET", "workout") /\ crud.existed) =>
         /\ crud.resp.status = 200
         /\ \E d \in workouts : d._id = crud.id /\ crud.resp.body = RecordToJSON(d)
    /\ (RecordRequested("DELETE", "workout") /\ crud.existed) =>
         /\ crud.resp.status = 200
         /\ crud.resp.body = [success |-> TRUE]
         /\ \A d \in workouts : d._id # crud.id
    /\ (RecordRequested("DELETE", "workout") /\ ~crud.existed) =>
         crud.resp.status = 404

\* C20: a DELETE of a meal path with an id is routed to the meal delete
\* handler, and is answered 200 {success: true} when a meal had the id and
\* 404 when none had.
C20_MealDeleteRouted ==
    RecordRequested("DELETE", "meal") =>
        IF crud.existed
        THEN /\ Route(crud.req.method, crud.req.path) = "deleteMeal"
             /\ crud.resp.status = 200
             /\ crud.resp.body = [success |-> TRUE]
        ELSE crud.resp.status = 404

(***************************************************************************)
(* Further properties of the user service                                  *)
(***************************************************************************)
\* the step ends signup t
SignupEnds(t) == signup[t].pc # "done" /\ signup'[t].pc = "done"

\* C21: once a signup with an email has been answered 200, a signup that
\* arrives later with that email and all three fields present is answered
\* 409, and the step that answers it creates no user and leaves the stored
\* users, the holder of the email among them, as they were.
C21_RepeatSignupRejected ==
    [][\A t \in SignupTasks :
        (SignupEnds(t) /\ signup[t].held /\ ~FieldsMissing(signup[t].body)) =>
            /\ \E t2 \in SignupTasks \ {t} :
                 /\ SignupFinished(t2) /\ signup[t2].resp.status = 200
                 /\ signup[t2].body.email = signup[t].body.email
            /\ signup'[t].resp =
                   Response(409, [message |-> "User with this email already exists"])
            /\ users' = users
            /\ nextId' = nextId]_vars

\* C21 witness: a signup was answered 200, and a later one with its email,
\* another username and another password was answered 409, one user stored.
C21_Witness ==
    \E t1, t2 \in SignupTasks :
        /\ SignupFinished(t1) /\ signup[t1].resp.status = 200
        /\ SignupFinished(t2) /\ signup[t2].held /\ signup[t2].resp.status = 409
        /\ signup[t1].body.email = signup[t2].body.email
        /\ signup[t1].body.password # signup[t2].body.password
        /\ Cardinality(users) = 1
        /\ \A u \in users : BcryptCompare(signup[t1].body.password[1], u.password)

\* C22: a register call whose username, email or password is absent or empty
\* fails with the all-fields-required validation error, answered 400, in the
\* step it arrives in: it never waits for the store, and no user is created.
C22_MissingFieldRejectedFirst ==
    /\ [](\A t \in SignupTasks :
            (signup[t].pc # "idle" /\ FieldsMissing(signup[t].body)) =>
                /\ signup[t].pc = "done"
                /\ signup[t].outcome = Threw(ErrAllFields)
                /\ signup[t].resp.status = 400
                /\ ~signup[t].free)
    /\ [][\A t \in SignupTasks :
            (signup[t].pc = "idle" /\ signup'[t].pc # "idle"
                /\ (Falsy(signup'[t].body.username) \/ Falsy(signup'[t].body.email)
                        \/ Falsy(signup'[t].body.password))) =>
                (signup'[t].pc = "done" /\ users' = users /\ nextId' = nextId)]_vars

\* C22 witness: with a user stored, a signup with that user's email and no
\* password was answered 400.
C22_Witness ==
    \E t \in SignupTasks :
        /\ SignupFinished(t) /\ signup[t].held
        /\ signup[t].body.password = Absent
        /\ ~Falsy(signup[t].body.username)
        /\ signup[t].resp.status = 400

\* signup t passed the lookup and its insert was refused by the unique index
InsertRefused(t) ==
    /\ SignupFinished(t) /\ ~signup[t].outcome.ok
    /\ Len(signup[t].outcome.error.message) = 3
    /\ signup[t].outcome.error.message[1] = "E11000 duplicate key error collection: "

\* C26: when two signups with one unused email both pass the lookup before
\* either insert, one is answered 200 and the other, whose insert the unique
\* index refuses, is answered 409.
C26_RaceLoserGets409 ==
    \A t1, t2 \in SignupTasks :
        (t1 # t2 /\ SignupFinished(t1) /\ signup[t1].outcome.ok /\ InsertRefused(t2)
            /\ signup[t1].body.email = signup[t2].body.email) =>
                /\ signup[t1].resp.status = 200
                /\ signup[t2].resp.status = 409

(***************************************************************************)
(* Updates and deletes that meet on one record                             *)
(***************************************************************************)
\* the step is an update of a record that the call before updated too
SecondUpdate ==
    /\ crud.op = "update" /\ crud.existed
    /\ crud'.op = "update" /\ crud'.coll = crud.coll /\ crud'.id = crud.id

\* C27: of two updates of one stored workout or meal, served one after the
\* other, the record stored at the end has, in each field of the data, the
\* value of the later update where it sets the field, else the value of the
\* earlier one where that sets it, else the value it had; the fields no data
\* names are as they were, and the record is the one the later call returns.
C27_UpdatesApplyInOrder ==
    [][SecondUpdate =>
        \A old \in FindById(CollectionOf(crud.coll), crud.id) :
            \E new \in FindById(IF crud.coll = "workout" THEN workouts' ELSE meals',
                                crud.id) :
                /\ crud'.existed /\ crud'.returned = new
                /\ Cardinality(FindById(IF crud.coll = "workout" THEN workouts'
                                        ELSE meals', crud.id)) = 1
                /\ DOMAIN new = DOMAIN old
                /\ \A f \in DOMAIN old \ DOMAIN crud'.data : new[f] = old[f]
                /\ \A f \in DOMAIN crud'.data :
                      /\ crud'.data[f] # Absent => new[f] = crud'.data[f][1]
                      /\ (crud'.data[f] = Absent /\ crud.data[f] # Absent) =>
                             new[f] = crud.data[f][1]
                      /\ (crud'.data[f] = Absent /\ crud.data[f] = Absent) =>
                             new[f] = old[f]]_vars

\* C27 witness: updates of one workout were served, an earlier one set the
\* exercises, the last one a name only; the workout has the last name and
\* the earlier exercises.
C27_Witness ==
    /\ crud.op = "update" /\ crud.coll = "workout" /\ crud.existed
    /\ crud.data = [name |-> Some("Pull Day"), exercises |-> Absent]
    /\ \E d \in workouts :
          /\ d._id = crud.id
          /\ d.name = "Pull Day"
          /\ d.exercises = <<Exercise("plank", 3, 1, Absent)>>

\* no workout and no meal has the id
NoRecordWith(ws, ms, id) == \A d \in ws \cup ms : d._id # id

\* C29: a record that was deleted does not come back: an id that was given
\* out and has no record has none after any step; an update of it returns
\* null (the meal handler answers 404) and leaves both collections as they
\* were; and a delete that returns true leaves the id without a record.
C29_NoResurrection ==
    [][/\ \A id \in RecordIds :
             (id < nextId /\ NoRecordWith(workouts, meals, id)) =>
                 /\ NoRecordWith(workouts', meals', id)
                 /\ (crud'.op = "update" /\ crud'.id = id) =>
                        /\ crud'.returned = Null
                        /\ ~crud'.existed
                        /\ workouts' = workouts /\ meals' = meals
                        /\ crud'.coll = "meal" => crud'.resp.status = 404
       /\ (crud'.op = "delete" /\ crud'.result) =>
              /\ crud'.existed
              /\ NoRecordWith(workouts', meals', crud'.id)]_vars

\* C29 witness: a meal was deleted, the delete returning true, and the
\* update of its id that followed was answered 404, no record stored.
C29_Witness ==
    /\ crud.op = "update" /\ crud.coll = "meal" /\ ~crud.existed
    /\ crud.repeat = "after_true"
    /\ crud.id < nextId /\ crud.data.name # Absent
    /\ crud.resp.status = 404
    /\ NoRecordWith(workouts, meals, crud.id)

(***************************************************************************)
(* A statistics call and the record it read                                *)
(***************************************************************************)
\* the step is an update or a delete of the record that call t read
Overwrites(t) ==
    /\ crud' # crud /\ crud'.op \in {"update", "delete"}
    /\ crud'.coll = stats[t].kind /\ crud'.id = stats[t].id

\* C28: a statistics result is computed from the one version of the record
\* that the call read before its AI call: the call keeps the version stored
\* when it arrived, an update or a delete of the record served while the AI
\* call is pending changes nothing of the call and does not end it, and all
\* the aggregates and the date of the result are those of the version read,
\* whatever is stored when the call returns.
C28_StatsFromVersionRead ==
    /\ [][\A t \in StatsTasks :
            /\ (stats[t].pc = "idle" /\ stats'[t].pc = "awaiting") =>
                   stats'[t].record \in StoredNow(stats'[t].kind, stats'[t].id)
            /\ (stats[t].pc = "awaiting" /\ Overwrites(t)) => stats'[t] = stats[t]
            /\ stats[t].pc = "awaiting" => stats'[t].record = stats[t].record]_vars
    /\ [](\A t \in StatsTasks :
            (StatsFinished(t) /\ StatsFound(t)) =>
                LET v == stats[t].outcome.value
                    r == stats[t].record IN
                /\ stats[t].outcome.ok
                /\ v.date = r.date
                /\ stats[t].kind = "workout" =>
                      /\ v.workoutId = r._id
                      /\ v.totalExercises = Len(r.exercises)
                      /\ v.totalSets = SetsSum(r.exercises)
                      /\ v.totalReps = RepsSum(r.exercises)
                      /\ v.totalWeight = WeightSum(r.exercises)
                      /\ v.intensity = (IF WeightSum(r.exercises) > 5000 THEN "High"
                                        ELSE IF WeightSum(r.exercises) > 2000
                                        THEN "Medium" ELSE "Low")
                      /\ Len(r.exercises) > 0 =>
                            2 * v.averageWeightPerExercise * Len(r.exercises) \in
                                (2 * WeightSum(r.exercises) - Len(r.exercises) + 1)
                                    .. (2 * WeightSum(r.exercises) + Len(r.exercises))
                /\ stats[t].kind = "meal" =>
                      /\ v.mealId = r._id
                      /\ v.totalCalories =
                             SumTo([i \in 1..Len(r.foods) |->
                                       IF r.foods[i].calories = Absent THEN 0
                                       ELSE r.foods[i].calories[1]], Len(r.foods)))

\* C28 witness: the workout of a statistics call was deleted while its AI
\* call was pending, and the call returned the totals of the workout read.
C28_Witness ==
    \E t \in StatsTasks :
        /\ WorkoutStatsDone(t) /\ stats[t].stale
        /\ stats[t].record.exercises = ExampleExercises
        /\ stats[t].outcome.value.totalWeight = 3800
        /\ stats[t].outcome.value.intensity = "Medium"
        /\ workouts = {}

\* the fields of the stored workouts and meals
WorkoutFields == {"_id", "userId", "name", "date", "exercises", "__v"}

MealFields == {"_id", "userId", "name", "date", "foods", "__v"}

\* C25: the statistics computations only read: a step of a statistics call,
\* its arrival or the settling of its AI call by a response, a failure or no
\* response, leaves every workout, meal and user as stored, and no stored
\* record ever holds a statistics field.
C25_StatsReadOnly ==
    /\ [][stats' # stats =>
            /\ workouts' = workouts /\ meals' = meals /\ users' = users
            /\ nextId' = nextId /\ crud' = crud]_vars
    /\ [](/\ \A d \in workouts : DOMAIN d = WorkoutFields
          /\ \A d \in meals : DOMAIN d = MealFields)

\* C25 witness: the statistics of a stored meal were returned with the AI
\* estimate 350, and the meal is stored as it was read.
C25_Witness ==
    \E t \in StatsTasks :
        /\ StatsFinished(t) /\ StatsFound(t) /\ stats[t].kind = "meal"
        /\ stats[t].outcome.ok /\ stats[t].outcome.value.calories = 350
        /\ ~stats[t].stale
        /\ stats[t].record \in meals
        /\ stats[t].record.foods # <<>>

(***************************************************************************)
(* What the operations leave alone                                         *)
(***************************************************************************)
\* C24: users are immutable once created: whatever the step (a login, a
\* step of a signup, a workout or meal operation, a step of a statistics
\* call), every stored user is stored unchanged after it, and the users
\* change only by one user added by the insert of a signup that is then
\* answered 200 with that user.
C24_UsersImmutable ==
    [][/\ users \subseteq users'
       /\ users' # users =>
             \E t \in SignupTasks :
                 /\ signup[t].pc = "creating" /\ signup'[t].pc = "done"
                 /\ signup'[t].outcome.ok /\ signup'[t].resp.status = 200
                 /\ \E u \in users' \ users :
                       /\ users' = users \cup {u}
                       /\ u._id = signup'[t].outcome.value.user._id
                       /\ Some(u.email) = signup[t].body.email]_vars

\* C24 witness: with a user stored, that user logged in, a meal deleted and
\* a statistics call returned, the user is stored as the signup created it.
C24_Witness ==
    /\ \E u \in users, t \in SignupTasks :
          /\ SignupFinished(t) /\ signup[t].outcome.ok
          /\ u._id = signup[t].outcome.value.user._id
          /\ u.username = signup[t].body.username[1]
          /\ BcryptCompare(signup[t].body.password[1], u.password)
          /\ u.__v = 0
    /\ lastLogin.served /\ lastLogin.resp.status = 200
    /\ crud.op = "delete" /\ crud.coll = "meal" /\ crud.result
    /\ \E t \in StatsTasks : StatsFinished(t) /\ StatsFound(t)

\* the text of a user's id, as a request carries it in userId
IdText(n) == IF n = 1 THEN "u1" ELSE IF n = 2 THEN "u2" ELSE "other"

\* the step is a call on the records of the collection
RecordCall(coll) ==
    \/ crud' # crud /\ crud'.coll = coll
    \/ \E t \in StatsTasks : stats'[t] # stats[t] /\ stats'[t].kind = coll

\* C30: the collections are independent: a workout operation (list, create,
\* update, delete, statistics) leaves the meals and the users as they were,
\* a meal operation leaves the workouts and the users as they were, and a
\* create stores its record under the userId of its data and answers 201
\* whether or not a stored user has that id.
C30_CollectionsIndependent ==
    [][/\ RecordCall("workout") => (meals' = meals /\ users' = users)
       /\ RecordCall("meal") => (workouts' = workouts /\ users' = users)
       /\ (crud' # crud /\ crud'.op = "create") =>
             /\ crud'.resp.status = 201
             /\ \E d \in (workouts' \ workouts) \cup (meals' \ meals) :
                   /\ d._id = crud'.id
                   /\ RecordToJSON(d) = crud'.resp.body]_vars

\* C30 witness: a workout was created for userId "u1" while the one stored
\* user has another id, and a meal is stored too.
C30_Witness ==
    /\ crud.op = "create" /\ crud.coll = "workout" /\ crud.resp.status = 201
    /\ crud.resp.body.userId = "u1"
    /\ users # {} /\ meals # {}
    /\ \A u \in users : IdText(u._id) # crud.resp.body.userId

(***************************************************************************)
(* The middleware in front of the user routes                              *)
(***************************************************************************)
\* the body of a signup matches the interface description
SignupConforms(body) ==
    /\ body.username # Absent /\ body.email # Absent /\ body.password # Absent
    /\ Len(body.username[1]) >= 3 /\ Len(body.password[1]) >= 6

\* C23: a request whose body does not match the interface description is
\* answered 400 with a non-empty list of violations and reaches no handler:
\* the step that answers it changes no collection and starts no signup and
\* no login, and every signup and login a handler serves has a body that
\* matches.
C23_MismatchAnswered400 ==
    /\ [][(crud' # crud /\ crud'.op = "refused") =>
            /\ crud'.resp.status = 400
            /\ "errors" \in DOMAIN crud'.resp.body
            /\ users' = users /\ workouts' = workouts /\ meals' = meals
            /\ signup' = signup /\ lastLogin' = lastLogin]_vars
    /\ [](\A t \in SignupTasks : signup[t].pc # "idle" => SignupConforms(signup[t].body))
    /\ [](lastLogin.served =>
            (lastLogin.credentials.email # Absent /\ lastLogin.credentials.password # Absent))

====
